---- MODULE Spec2Model ----
(***************************************************************************)
(* A model of kanzi's C++ filesystem helpers (src/cpp/src/io/IOUtil.hpp:   *)
(* createFileList and mkdirAll) and of the EntropyEncoder life cycle       *)
(* (src/cpp/src/EntropyEncoder.hpp).                                       *)
(*                                                                         *)
(* A C++ string is a sequence of one-character strings; C++ indices are    *)
(* 0-based and unsigned.  The filesystem is a function from node paths     *)
(* (sequences of entry names, <<>> being the root and the working          *)
(* directory) to the st_mode file type of the node.                        *)
(***************************************************************************)
EXTENDS Integers, Sequences, FiniteSets, TLC

VARIABLES fs,        \* the filesystem: node path -> file type bits of st_mode
          readonly,  \* the directories in which the caller may not create entries
          call,      \* the last call made: [op, arg, n]
          out,       \* what the last call left behind (see NoOut, the actions)
          mk,        \* what the last mkdirAll left behind (see NoMk)
          errno,     \* the C errno
          enc        \* the entropy encoder's life cycle (see EncInit)

vars == <<fs, readonly, call, out, mk, errno, enc>>

----------------------------------------------------------------------------
(* Bounds of the model *)

\* entries of a generated directory tree, the root not counted
MaxNodes == 3
\* characters of a directive handed to createFileList
MaxLen == 4
\* entries of a generated tree handed to mkdirAll
MaxMkNodes == 1
\* characters of a path handed to mkdirAll
MaxMkLen == 3
\* calls of encode and of dispose on one encoder, and bytes of one block
MaxEncodes == 4
MaxDisposes == 2
MaxBlock == 3

----------------------------------------------------------------------------
(* Characters and strings *)

PATH_SEPARATOR == "/"
DOT == "."
NUL == "\\0"

Alphabet == {PATH_SEPARATOR, DOT, "a"}

\* the entry names a generated tree uses: a plain one and a hidden one
Names == { <<"a">>, <<DOT, "a">> }
DotEntry == <<DOT>>
DotDotEntry == <<DOT, DOT>>

Strings(n) == UNION { [1..k -> Alphabet] : k \in 0..n }

Min(a, b) == IF a < b THEN a ELSE b
Max(a, b) == IF a > b THEN a ELSE b

\* size_t arithmetic: 0 - 1 wraps to the largest value
SizeBits == 30
USub(a, b) == (a - b) % (2 ^ SizeBits)

\* s[i] of std::string: defined for i <= size(), the terminator at i = size()
InRange(s, i) == 0 <= i /\ i < Len(s)
At(s, i) == IF InRange(s, i) THEN s[i + 1] ELSE NUL

\* s.substr(pos, n): at most n characters from pos
Substr(s, pos, n) == SubSeq(s, pos + 1, pos + Min(n, Len(s) - pos))

\* s without one trailing separator, if it has one
Stripped(s) ==
    IF Len(s) > 0 /\ s[Len(s)] = PATH_SEPARATOR THEN SubSeq(s, 1, Len(s) - 1) ELSE s

RECURSIVE TrailingSeps(_)
TrailingSeps(s) ==
    IF Len(s) > 0 /\ s[Len(s)] = PATH_SEPARATOR
    THEN 1 + TrailingSeps(SubSeq(s, 1, Len(s) - 1))
    ELSE 0

----------------------------------------------------------------------------
(* File types: the S_IFMT bits of st_mode *)

S_IFIFO  == 4096     \* 0010000
S_IFCHR  == 8192     \* 0020000
S_IFDIR  == 16384    \* 0040000
S_IFBLK  == 24576    \* 0060000
S_IFREG  == 32768    \* 0100000
S_IFLNK  == 40960    \* 0120000
S_IFSOCK == 49152    \* 0140000

\* the types an entry of a generated tree may have; an S_IFLNK entry is a
\* symbolic link whose target is missing (a link to an existing node is that
\* node to stat)
FileModes == {S_IFREG, S_IFDIR, S_IFIFO, S_IFBLK, S_IFSOCK, S_IFLNK}

RECURSIVE BitAnd(_, _)
BitAnd(a, b) ==
    IF a = 0 \/ b = 0 THEN 0
    ELSE (a % 2) * (b % 2) + 2 * BitAnd(a \div 2, b \div 2)

\* line 47: the test the code takes for "is a regular file"
IsRegular(mode) == BitAnd(mode, S_IFREG) # 0
\* lines 55 and 93: and for "is a directory"
IsDirectory(mode) == BitAnd(mode, S_IFDIR) # 0

----------------------------------------------------------------------------
(* The filesystem as the calls of the code see it *)

Root == <<>>
Parent(p) == SubSeq(p, 1, Len(p) - 1)

\* the components of a path string, empty ones (doubled separators) dropped
RECURSIVE SplitFrom(_, _, _)
SplitFrom(s, i, cur) ==
    IF i > Len(s) THEN (IF cur = <<>> THEN <<>> ELSE <<cur>>)
    ELSE IF s[i] = PATH_SEPARATOR
         THEN (IF cur = <<>> THEN <<>> ELSE <<cur>>) \o SplitFrom(s, i + 1, <<>>)
         ELSE SplitFrom(s, i + 1, Append(cur, s[i]))
SplitPath(s) == SplitFrom(s, 1, <<>>)

\* walk components from node p; every node walked through is a directory
RECURSIVE Walk(_, _, _, _)
Walk(fsys, p, comps, i) ==
    IF i > Len(comps) THEN [ok |-> TRUE, node |-> p]
    ELSE IF fsys[p] # S_IFDIR THEN [ok |-> FALSE, node |-> p]
    ELSE IF comps[i] = DotEntry THEN Walk(fsys, p, comps, i + 1)
    ELSE IF comps[i] = DotDotEntry THEN Walk(fsys, Parent(p), comps, i + 1)
    ELSE LET q == Append(p, comps[i])
         IN IF q \notin DOMAIN fsys \/ fsys[q] = S_IFLNK
            THEN [ok |-> FALSE, node |-> q]
            ELSE Walk(fsys, q, comps, i + 1)

\* path resolution: the empty path names nothing, a trailing separator asks
\* for a directory
Resolve(fsys, s) ==
    IF s = <<>> THEN [ok |-> FALSE, node |-> Root]
    ELSE LET r == Walk(fsys, Root, SplitPath(s), 1)
         IN IF r.ok /\ s[Len(s)] = PATH_SEPARATOR /\ fsys[r.node] # S_IFDIR
            THEN [ok |-> FALSE, node |-> r.node]
            ELSE r

\* stat(path, &buffer): 0 and st_mode, or a failure
stat(fsys, s) ==
    LET r == Resolve(fsys, s)
    IN IF r.ok THEN [ok |-> TRUE, mode |-> fsys[r.node]]
       ELSE [ok |-> FALSE, mode |-> 0]

Children(fsys, d) == { p \in DOMAIN fsys : Len(p) = Len(d) + 1 /\ Parent(p) = d }

\* the names of a set of nodes in the order ord ranks them
RECURSIVE Listing(_, _, _)
Listing(kids, ord, i) ==
    IF i > Len(ord) THEN <<>>
    ELSE (IF \E p \in kids : p[Len(p)] = ord[i] THEN <<ord[i]>> ELSE <<>>)
         \o Listing(kids, ord, i + 1)

\* the orders in which readdir may hand out the names
Orders == { o \in [1..Cardinality(Names) -> Names] :
              \A i, j \in DOMAIN o : i # j => o[i] # o[j] }

\* the orders a call on target can tell apart: all of them when target can
\* be stat'ed and some directory holds two entries, one otherwise
ReaddirOrders(fsys, target) ==
    IF /\ Resolve(fsys, Stripped(target)).ok
       /\ \E p, q \in DOMAIN fsys :
             p # q /\ p # Root /\ q # Root /\ Parent(p) = Parent(q)
    THEN Orders
    ELSE {CHOOSE o \in Orders : TRUE}

\* opendir + the readdir sequence: ".", ".." and the entries
opendir(fsys, s, ord) ==
    LET r == Resolve(fsys, s)
    IN IF r.ok /\ fsys[r.node] = S_IFDIR
       THEN [ok |-> TRUE,
             ents |-> <<DotEntry, DotDotEntry>> \o Listing(Children(fsys, r.node), ord, 1)]
       ELSE [ok |-> FALSE, ents |-> <<>>]

----------------------------------------------------------------------------
(* createFileList *)

ERR_NONE == "none"
ERR_OPEN_FILE == "ERR_OPEN_FILE"
ERR_READ_FILE == "ERR_READ_FILE"
\* the process died on an out-of-range read
SIGSEGV == "SIGSEGV"

\* what a read outside the string's storage may do: kill the process or
\* yield whatever byte lies there
OutOfRangeReads == Alphabet \cup {NUL, SIGSEGV}

\* files: the accumulator; err: the error thrown; handles: DIR* open and not
\* closed; opened: the strings given to opendir, in order; recursive: the
\* isRecursive of each of them; oob: a character was read at an index >= size()
NoOut == [files |-> <<>>, err |-> ERR_NONE, handles |-> 0, opened |-> <<>>,
          recursive |-> <<>>, oob |-> FALSE]

Throw(st, e) == [st EXCEPT !.err = e]

RECURSIVE createFileList(_, _, _, _, _)
RECURSIVE ReadDirLoop(_, _, _, _, _, _, _, _)

\* lines 79-99: the readdir loop over ents from index i, then closedir
ReadDirLoop(fsys, target, isRecursive, ents, i, st, ord, ub) ==
    IF i > Len(ents) THEN [st EXCEPT !.handles = @ - 1]
    ELSE
      LET d_name == ents[i]
          fullpath == target \o d_name
          buffer == stat(fsys, fullpath)
      IN IF ~buffer.ok THEN Throw(st, ERR_OPEN_FILE)
         ELSE IF d_name[1] # DOT
         THEN IF IsRegular(buffer.mode)
              THEN ReadDirLoop(fsys, target, isRecursive, ents, i + 1,
                               [st EXCEPT !.files = Append(@, fullpath)], ord, ub)
              ELSE IF isRecursive /\ IsDirectory(buffer.mode)
              THEN LET r == createFileList(fsys, fullpath, st, ord, ub)
                   IN IF r.err # ERR_NONE THEN r
                      ELSE ReadDirLoop(fsys, target, isRecursive, ents, i + 1, r, ord, ub)
              ELSE ReadDirLoop(fsys, target, isRecursive, ents, i + 1, st, ord, ub)
         ELSE ReadDirLoop(fsys, target, isRecursive, ents, i + 1, st, ord, ub)

\* lines 62-73: mode and normalised directory string of a directory target
IsRecursive(target) ==
    \/ Len(target) <= 2
    \/ At(target, USub(Len(target), 1)) # DOT
    \/ At(target, USub(Len(target), 2)) # PATH_SEPARATOR

\* a Normalize that adds the separator without looking at the last character
NormalizeAlwaysAppends(target, isRecursive) ==
    IF isRecursive
    THEN Append(target, PATH_SEPARATOR)
    ELSE Substr(target, 0, USub(Len(target), 1))

Normalize(target, isRecursive) ==
    IF isRecursive
    THEN IF At(target, USub(Len(target), 1)) # PATH_SEPARATOR
         THEN Append(target, PATH_SEPARATOR)
         ELSE target
    ELSE Substr(target, 0, USub(Len(target), 1))

\* line 38-39: one trailing separator is dropped; c is the character read
StripSeparator(target, c) ==
    IF c = PATH_SEPARATOR THEN Substr(target, 0, USub(Len(target), 1)) ELSE target

\* line 49: the test that decides whether a regular-file target is kept
KeepTarget(target) == At(target, 0) # DOT

\* lines 34-106, ub being what an out-of-range read does
createFileList(fsys, target0, st, ord, ub) ==
    LET last == USub(Len(target0), 1)
        oob0 == ~InRange(target0, last)
        c == IF oob0 THEN ub ELSE At(target0, last)
    IN
    IF c = SIGSEGV THEN [st EXCEPT !.err = SIGSEGV, !.oob = TRUE]
    ELSE
      LET target == StripSeparator(target0, c)
          st0 == [st EXCEPT !.oob = @ \/ oob0]
          buffer == stat(fsys, target)
      IN
      IF ~buffer.ok THEN Throw(st0, ERR_OPEN_FILE)
      ELSE IF IsRegular(buffer.mode)
      THEN LET st1 == [st0 EXCEPT !.oob = @ \/ ~InRange(target, 0)]
           IN IF KeepTarget(target)
              THEN [st1 EXCEPT !.files = Append(@, target)]
              ELSE st1
      ELSE IF ~IsDirectory(buffer.mode) THEN Throw(st0, ERR_OPEN_FILE)
      ELSE
        LET isRecursive == IsRecursive(target)
            \* size() > 2 when [size()-2] is read, size() >= 1 when [size()-1] is
            st1 == [st0 EXCEPT !.oob = @ \/ ~InRange(target, USub(Len(target), 1))]
            dirname == Normalize(target, isRecursive)
            dir == opendir(fsys, dirname, ord)
        IN IF dir.ok
           THEN ReadDirLoop(fsys, dirname, isRecursive, dir.ents, 1,
                            [st1 EXCEPT !.handles = @ + 1,
                                        !.opened = Append(@, dirname),
                                        !.recursive = Append(@, isRecursive)],
                            ord, ub)
           ELSE Throw(st1, ERR_READ_FILE)

----------------------------------------------------------------------------
(* mkdirAll *)

ENOENT == 2
EACCES == 13
EEXIST == 17
ENOTDIR == 20

\* why walking to a component's parent failed
WalkErrno(fsys, r) ==
    IF r.node \in DOMAIN fsys /\ fsys[r.node] \notin {S_IFDIR, S_IFLNK}
    THEN ENOTDIR ELSE ENOENT

\* _mkdir(s): the filesystem afterwards and the errno it sets (0: created,
\* errno left alone)
Mkdir(fsys, ro, s) ==
    LET comps == SplitPath(s)
    IN
    IF s = <<>> THEN [fs |-> fsys, errno |-> ENOENT]
    ELSE IF comps = <<>> THEN [fs |-> fsys, errno |-> EEXIST]
    ELSE
      LET r == Walk(fsys, Root, SubSeq(comps, 1, Len(comps) - 1), 1)
          name == comps[Len(comps)]
          q == Append(r.node, name)
      IN
      IF ~r.ok THEN [fs |-> fsys, errno |-> WalkErrno(fsys, r)]
      ELSE IF fsys[r.node] # S_IFDIR THEN [fs |-> fsys, errno |-> ENOTDIR]
      ELSE IF name \in {DotEntry, DotDotEntry} \/ q \in DOMAIN fsys
           THEN [fs |-> fsys, errno |-> EEXIST]
      ELSE IF r.node \in ro THEN [fs |-> fsys, errno |-> EACCES]
      ELSE [fs |-> [p \in DOMAIN fsys \cup {q} |->
                      IF p = q THEN S_IFDIR ELSE fsys[p]],
            errno |-> 0]

\* a Fatal that does not let EEXIST pass
FatalOnAnyError(e) == e # 0

\* lines 116-119 and 123-126: which failures of _mkdir end mkdirAll
Fatal(e) == e # EEXIST

\* one _mkdir of mkdirAll on state st = [fs, errno, ret, created]
MkdirStep(st, ro, s) ==
    LET r == Mkdir(st.fs, ro, s)
    IN IF r.errno = 0
       THEN [st EXCEPT !.fs = r.fs, !.created = @ + 1]
       ELSE IF Fatal(r.errno)
            THEN [st EXCEPT !.errno = r.errno, !.ret = -1]
            ELSE [st EXCEPT !.errno = r.errno]

\* lines 112-121: the prefix before each separator, left to right
RECURSIVE MkdirLoop(_, _, _, _)
MkdirLoop(st, ro, path, i) ==
    IF i >= Len(path) THEN st
    ELSE IF At(path, i) = PATH_SEPARATOR
    THEN LET st1 == MkdirStep(st, ro, Substr(path, 0, i))
         IN IF st1.ret # 0 THEN st1 ELSE MkdirLoop(st1, ro, path, i + 1)
    ELSE MkdirLoop(st, ro, path, i + 1)

\* lines 109-129
mkdirAll(fsys, ro, path) ==
    LET st == MkdirLoop([fs |-> fsys, errno |-> 0, ret |-> 0, created |-> 0],
                        ro, path, 0)
    IN IF st.ret # 0 THEN st ELSE MkdirStep(st, ro, path)

\* before: the filesystem before the call; repeat: the call repeats the path
\* of the call before it, which returned 0 after creating prevCreated
\* directories
NoMk == [ret |-> 0, before |-> <<>>, created |-> 0, repeat |-> FALSE,
         prevCreated |-> 0]

----------------------------------------------------------------------------
(* The generated trees *)

RECURSIVE Trees(_)
Trees(k) ==
    IF k = 0 THEN {{}}
    ELSE LET T == Trees(k - 1)
         IN T \cup UNION { { S \cup {Append(p, n)} : p \in S \cup {Root}, n \in Names }
                           : S \in T }

\* every node that holds entries is a directory
WellFormed(S, m) == \A p \in S : Len(p) > 1 => m[Parent(p)] = S_IFDIR

FileSystems(k, modes) ==
    UNION { { [p \in S \cup {Root} |-> IF p = Root THEN S_IFDIR ELSE m[p]]
              : m \in { f \in [S -> modes] : WellFormed(S, f) } }
            : S \in Trees(k) }

Directories(fsys) == { p \in DOMAIN fsys : fsys[p] = S_IFDIR }

----------------------------------------------------------------------------
(* The encoder's life cycle: active until dispose, then disposed, then      *)
(* destroyed.  encodes, bytes: calls of encode and source bytes taken;      *)
(* disposes: calls of dispose; late: calls of encode made after a dispose.  *)

EncInit == [phase |-> "active", encodes |-> 0, bytes |-> 0, disposes |-> 0,
            late |-> 0]

NoCall == [op |-> "none", arg |-> <<>>, n |-> 0]

----------------------------------------------------------------------------
(* Specification of createFileList: one call on a generated tree *)

Init ==
    /\ fs \in FileSystems(MaxNodes, FileModes)
    /\ readonly = {}
    /\ call = NoCall
    /\ out = NoOut
    /\ mk = NoMk
    /\ errno = 0
    /\ enc = EncInit

CallCreateFileList ==
    /\ call.op = "none"
    /\ \E target \in Strings(MaxLen) :
         \E ord \in ReaddirOrders(fs, target),
            ub \in (IF target = <<>> THEN OutOfRangeReads ELSE {NUL}) :
           /\ call' = [op |-> "createFileList", arg |-> target, n |-> 1]
           /\ out' = createFileList(fs, target, NoOut, ord, ub)
    /\ UNCHANGED <<fs, readonly, mk, errno, enc>>

Next == CallCreateFileList

Spec == Init /\ [][Next]_vars

----------------------------------------------------------------------------
(* Specification of mkdirAll: a call, and a second call, on a generated     *)
(* tree of regular files and directories, at most one directory of which    *)
(* refuses new entries                                                      *)

InitMkdir ==
    /\ fs \in FileSystems(MaxMkNodes, {S_IFREG, S_IFDIR})
    /\ readonly \in {{}} \cup { {d} : d \in Directories(fs) }
    /\ call = NoCall
    /\ out = NoOut
    /\ mk = NoMk
    /\ errno = 0
    /\ enc = EncInit

CallMkdirAll ==
    /\ call.op \in {"none", "mkdirAll"}
    /\ call.n < 2
    /\ \E path \in Strings(MaxMkLen) :
         LET r == mkdirAll(fs, readonly, path)
         IN /\ fs' = r.fs
            /\ errno' = r.errno
            /\ call' = [op |-> "mkdirAll", arg |-> path, n |-> call.n + 1]
            /\ mk' = [ret |-> r.ret, before |-> fs, created |-> r.created,
                      repeat |-> (call.op = "mkdirAll" /\ call.arg = path
                                    /\ mk.ret = 0),
                      prevCreated |-> mk.created]
    /\ UNCHANGED <<readonly, out, enc>>

NextMkdir == CallMkdirAll

SpecMkdir == InitMkdir /\ [][NextMkdir]_vars

----------------------------------------------------------------------------
(* Specification of the encoder: the calls its contract permits *)

InitEncoder ==
    /\ fs = [p \in {Root} |-> S_IFDIR]
    /\ readonly = {}
    /\ call = NoCall
    /\ out = NoOut
    /\ mk = NoMk
    /\ errno = 0
    /\ enc = EncInit

\* encode(block, blkptr, len): permitted until dispose has been called
encode ==
    /\ enc.phase = "active"
    /\ enc.encodes < MaxEncodes
    /\ \E len \in 0..MaxBlock :
         enc' = [enc EXCEPT !.encodes = @ + 1, !.bytes = @ + len,
                            !.late = @ + (IF enc.disposes > 0 THEN 1 ELSE 0)]
    /\ UNCHANGED <<fs, readonly, call, out, mk, errno>>

\* a dispose that leaves the encoder active
DisposeStaysActive ==
    /\ enc.phase \in {"active", "disposed"}
    /\ enc.disposes < MaxDisposes
    /\ enc' = [enc EXCEPT !.disposes = @ + 1]
    /\ UNCHANGED <<fs, readonly, call, out, mk, errno>>

\* dispose()
dispose ==
    /\ enc.phase \in {"active", "disposed"}
    /\ enc.disposes < MaxDisposes
    /\ enc' = [enc EXCEPT !.phase = "disposed", !.disposes = @ + 1]
    /\ UNCHANGED <<fs, readonly, call, out, mk, errno>>

\* ~EntropyEncoder(): dispose must have been called before
Destroy ==
    /\ enc.phase # "destroyed"
    /\ enc.disposes >= 1
    /\ enc' = [enc EXCEPT !.phase = "destroyed"]
    /\ UNCHANGED <<fs, readonly, call, out, mk, errno>>

NextEncoder == encode \/ dispose \/ Destroy

SpecEncoder == InitEncoder /\ [][NextEncoder]_vars

----------------------------------------------------------------------------
(* Vocabulary of the properties *)

Listed == call.op = "createFileList"
MadeDir == call.op = "mkdirAll"

Range(q) == { q[i] : i \in DOMAIN q }
NoDuplicates(q) == \A i, j \in DOMAIN q : i # j => q[i] # q[j]

\* the directive names a directory / a regular file to stat
NamesDirectory(fsys, s) == stat(fsys, s).ok /\ stat(fsys, s).mode = S_IFDIR
NamesRegular(fsys, s) == stat(fsys, s).ok /\ stat(fsys, s).mode = S_IFREG

\* the directive carries the non-recursive marker: <separator>. at its end,
\* three characters or more
HasMarker(s) ==
    Len(s) >= 3 /\ s[Len(s)] = DOT /\ s[Len(s) - 1] = PATH_SEPARATOR

Hidden(name) == name[1] = DOT

\* every entry of the tree can be stat'ed: no symbolic link dangles
AllStatable(fsys) == \A p \in DOMAIN fsys : fsys[p] # S_IFLNK

\* no entry has a type that the bit tests of lines 47 and 55 misjudge
NoMisjudgedType(fsys) == \A p \in DOMAIN fsys : fsys[p] \notin {S_IFBLK, S_IFSOCK}

\* the component after the last separator
Basename(s) == LET c == SplitPath(s) IN c[Len(c)]

IsUnder(p, d) == Len(p) > Len(d) /\ SubSeq(p, 1, Len(d)) = d

\* the regular files below directory d reached through non-hidden names only
Visible(fsys, d) ==
    { p \in DOMAIN fsys :
        /\ fsys[p] = S_IFREG
        /\ IsUnder(p, d)
        /\ \A k \in (Len(d) + 1)..Len(p) : ~Hidden(p[k]) }

\* those that are entries of d itself
DirectVisible(fsys, d) == { p \in Visible(fsys, d) : Len(p) = Len(d) + 1 }

\* the accumulator names exactly the nodes of W, each once
HoldsExactly(fsys, files, W) ==
    /\ \A f \in Range(files) : Resolve(fsys, f).ok
    /\ { Resolve(fsys, f).node : f \in Range(files) } = W
    /\ Len(files) = Cardinality(W)
    /\ NoDuplicates(files)

\* f is directory string o followed by one entry name
EntryOf(f, o) ==
    /\ Len(f) > Len(o)
    /\ SubSeq(f, 1, Len(o)) = o
    /\ \A k \in (Len(o) + 1)..Len(f) : f[k] # PATH_SEPARATOR

----------------------------------------------------------------------------
(* Properties of createFileList, under Spec *)

\* C1: a directive without the non-recursive marker that names a directory D
\* leaves in the accumulator exactly the regular files below D that are
\* reached through non-hidden names, each once, and returns normally.
\* (Read in the claim's favour: the marker is looked for once the trailing
\* separator is dropped, and every entry of the tree can be stat'ed.)
C1_RecursiveListing ==
    (Listed /\ AllStatable(fs) /\ NamesDirectory(fs, Stripped(call.arg))
       /\ ~HasMarker(Stripped(call.arg)))
    => /\ out.err = ERR_NONE
       /\ HoldsExactly(fs, out.files, Visible(fs, Resolve(fs, call.arg).node))

\* C2: a directive D<separator>. lists exactly the non-hidden regular files
\* that are entries of D and descends into nothing; every other directive
\* that names a directory is handled in recursive mode.
\* (Read in the claim's favour, as C1.)
C2_NonRecursiveListing ==
    (Listed /\ AllStatable(fs) /\ NamesDirectory(fs, Stripped(call.arg)))
    => IF HasMarker(Stripped(call.arg))
       THEN /\ out.err = ERR_NONE
            /\ HoldsExactly(fs, out.files,
                            DirectVisible(fs, Resolve(fs, call.arg).node))
            /\ out.recursive = <<FALSE>>
       ELSE out.recursive # <<>> => out.recursive[1]

\* C3: a target that stats as a regular file is appended, alone, unless its
\* basename begins with '.', and then nothing is appended.
C3_RegularFileTarget ==
    (Listed /\ NamesRegular(fs, call.arg))
    => /\ out.err = ERR_NONE
       /\ out.files = IF Hidden(Basename(call.arg)) THEN <<>> ELSE <<call.arg>>

\* C6: a target that exists and is neither a regular file nor a directory
\* ends in the open-file error, with nothing appended and nothing opened, and
\* the two bit tests take none of these types for a regular file or a
\* directory.
C6_InvalidFileType ==
    (Listed /\ stat(fs, call.arg).ok
       /\ stat(fs, call.arg).mode \in {S_IFCHR, S_IFBLK, S_IFIFO, S_IFSOCK, S_IFLNK})
    => /\ ~IsRegular(stat(fs, call.arg).mode)
       /\ ~IsDirectory(stat(fs, call.arg).mode)
       /\ out.err = ERR_OPEN_FILE
       /\ out.files = <<>>
       /\ out.opened = <<>>

\* C8, as claimed: the directory string opened for a directive that names a
\* directory and is handled in recursive mode ends with exactly one
\* separator, and so does every directory string opened below it.
C8_SingleSeparator ==
    (Listed /\ NamesDirectory(fs, call.arg) /\ ~HasMarker(call.arg)
       /\ (out.recursive # <<>> => out.recursive[1]))
    => /\ out.opened # <<>>
       /\ \A i \in DOMAIN out.opened : TrailingSeps(out.opened[i]) = 1

\* C8, as the code has it: the directory string opened first ends with
\* max(1, k - 1) separators, k being the number of separators the directive
\* ends with (one for k <= 2, k - 1 from k = 3 on); every directory opened
\* below it ends with one; every appended path is an opened directory string
\* followed by one entry name; and the separator alone as directive ends in
\* the open-file error with nothing opened.
C8_SeparatorsKept ==
    /\ (Listed /\ out.opened # <<>> /\ out.recursive[1])
       => /\ TrailingSeps(out.opened[1]) = Max(1, TrailingSeps(call.arg) - 1)
          /\ \A i \in DOMAIN out.opened : i > 1 => TrailingSeps(out.opened[i]) = 1
          /\ \A f \in Range(out.files) : \E i \in DOMAIN out.opened :
                EntryOf(f, out.opened[i])
    /\ (Listed /\ call.arg = <<PATH_SEPARATOR>>)
       => (out.err = ERR_OPEN_FILE /\ out.opened = <<>>)

\* a directive ending in three separators listed a file of a directory
C8_Witness ==
    /\ Listed /\ out.err = ERR_NONE
    /\ TrailingSeps(call.arg) = 3
    /\ out.recursive = <<TRUE>>
    /\ out.files # <<>>

\* C9: after a call, whether it returned or threw, no directory handle is
\* left open.  (Stated for the trees that hold no entry of a type the bit
\* tests misjudge, so that what refutes it owes nothing to those tests.)
C9_HandlesClosed == (Listed /\ NoMisjudgedType(fs)) => out.handles = 0

\* C10: no character of the target is read at an index outside
\* 0 .. size()-1, and the empty and the separator-only target end in the
\* open-file error.
C10_IndexInRange ==
    Listed => /\ ~out.oob
              /\ call.arg \in {<<>>, <<PATH_SEPARATOR>>} => out.err = ERR_OPEN_FILE

----------------------------------------------------------------------------
(* Properties of mkdirAll, under SpecMkdir *)

\* every missing component of path s can be created: the components that
\* exist are directories, and the first missing one lies in a directory that
\* takes new entries (those after it lie in directories just created)
RECURSIVE CanCreate(_, _, _, _, _)
CanCreate(fsys, ro, p, comps, i) ==
    IF i > Len(comps) THEN TRUE
    ELSE IF comps[i] = DotEntry THEN CanCreate(fsys, ro, p, comps, i + 1)
    ELSE IF comps[i] = DotDotEntry THEN CanCreate(fsys, ro, Parent(p), comps, i + 1)
    ELSE LET q == Append(p, comps[i])
         IN IF q \in DOMAIN fsys
            THEN fsys[q] = S_IFDIR /\ CanCreate(fsys, ro, q, comps, i + 1)
            ELSE /\ p \notin ro
                 /\ CanCreate([x \in DOMAIN fsys \cup {q} |->
                                 IF x = q THEN S_IFDIR ELSE fsys[x]],
                              ro, q, comps, i + 1)

Permitted(fsys, ro, s) == s # <<>> /\ CanCreate(fsys, ro, Root, SplitPath(s), 1)

\* the prefixes of s that end before a separator, and s itself
Prefixes(s) ==
    { SubSeq(s, 1, k) : k \in { j \in 1..Len(s) :
                                  j = Len(s) \/ s[j + 1] = PATH_SEPARATOR } }

\* C4: mkdirAll(p) returns 0 and leaves p and each of its prefixes a
\* directory whenever every missing component may be created, p absolute or
\* relative; and whenever it returns 0, p is a directory.
C4_CreatesDirectories ==
    MadeDir =>
      /\ Permitted(mk.before, readonly, call.arg)
         => /\ mk.ret = 0
            /\ \A q \in Prefixes(call.arg) : q # <<>> => NamesDirectory(fs, q)
      /\ mk.ret = 0 => NamesDirectory(fs, call.arg)

\* C5: a call of mkdirAll that repeats the path of a call that returned 0
\* returns 0 and leaves the filesystem as it found it.
C5_Idempotent ==
    (MadeDir /\ mk.repeat) => (mk.ret = 0 /\ fs = mk.before)

\* the first call created a chain of two directories, the second repeated it
C5_Witness ==
    MadeDir /\ mk.repeat /\ mk.prevCreated = 2 /\ mk.created = 0 /\ mk.ret = 0

----------------------------------------------------------------------------
(* Properties of the encoder, under SpecEncoder *)

====
